---- MODULE Spec2Model ----
(***************************************************************************)
(* A model of src/security_system.py: the credential store, the lockout   *)
(* tracker, the login loop, registration, the password resets and the      *)
(* data-directory switch of class SecuritySystem.                          *)
(*                                                                         *)
(* One step of the model is the code that runs between two blocking        *)
(* input() calls of one menu choice; the answers typed at the prompts are  *)
(* the \E-bound inputs of the action.  The wall clock is the variable now  *)
(* and advances only by Tick; the time.sleep calls of the source are       *)
(* pauses during which the clock advances and are covered by Tick.         *)
(***************************************************************************)
EXTENDS Integers, Sequences, FiniteSets, TLC

VARIABLES
    data_dir,        \* self.data_dir of the running SecuritySystem instance
    disk,            \* the two JSON files of every data directory
    users,           \* self.users
    protected_data,  \* self.protected_data
    login_attempts,  \* self.login_attempts
    now,             \* datetime.now(), in seconds
    pc,              \* where the program waits: start, main, login_pw, menu, exit, crashed
    cur,             \* the username of the running login loop or user menu
    last,            \* the outcome on the screen: the operation that just returned, or NoOp
    frozen_at        \* history: the username frozen last in data_dir and its freeze_time,
                     \* kept until the clock reaches that time

vars == <<data_dir, disk, users, protected_data, login_attempts, now, pc, cur,
          last, frozen_at>>

----------------------------------------------------------------------------
(* Program constants and bounds *)

max_attempts == 5
freeze_duration == 30

MaxTime == 30
TickStep == 15
MaxUsers == 2
MaxNotes == 1

None == -1
NoUser == "<none>"

Dirs == {"data", "alt"}
DefaultDir == "data"
Names == {"admin", "alice"}
RawNames == Names \cup {" alice "}
Passwords == {"pw1", "pw2"}
RoleInputs == {"ADMIN", "user", "root"}
Notes == {"memo"}

EmptyDict == [k \in {} |-> 0]

Put(d, k, v) == [x \in DOMAIN d \cup {k} |-> IF x = k THEN v ELSE d[x]]

(* str.strip() on the names the model types at a prompt *)
strip(s) == IF s = " alice " THEN "alice" ELSE s

(* str.lower() on the roles the model types at the role prompt *)
lower(s) == IF s = "ADMIN" THEN "admin" ELSE s

(* hashlib.sha256(password.encode()).hexdigest(): a digest that is not the *)
(* password and that differs for different passwords                       *)
hash_password(password) == <<"sha256", password>>

----------------------------------------------------------------------------
(* The persistence backend: one file is missing, malformed or a document *)

MissingFile == [exists |-> FALSE, ok |-> FALSE, doc |-> EmptyDict]
MalformedFile == [exists |-> TRUE, ok |-> FALSE, doc |-> EmptyDict]
SavedFile(d) == [exists |-> TRUE, ok |-> TRUE, doc |-> d]

default_data ==
    [k \in {"admin"} |->
        [notes |-> <<"This is a secure note for admin">>,
         files |-> <<"admin_document1.txt">>]]

load_users(f) == IF f.exists /\ f.ok THEN f.doc ELSE EmptyDict

load_users_file(f) == IF f.exists THEN f ELSE SavedFile(EmptyDict)

load_protected_data(f) ==
    IF f.exists THEN (IF f.ok THEN f.doc ELSE EmptyDict) ELSE default_data

load_protected_data_file(f) == IF f.exists THEN f ELSE SavedFile(default_data)

(* save_users that never reaches the file *)
save_users_lost(dsk, dir, u) == dsk

save_users(dsk, dir, u) == [dsk EXCEPT ![dir].user_data = SavedFile(u)]

save_protected_data(dsk, dir, p) == [dsk EXCEPT ![dir].protected_data = SavedFile(p)]

(* SecuritySystem.__init__ on directory dir: the disk it leaves behind *)
init_disk(dsk, dir) ==
    [dsk EXCEPT ![dir] = [user_data |-> load_users_file(dsk[dir].user_data),
                          protected_data |-> load_protected_data_file(dsk[dir].protected_data)]]

RECURSIVE SumOver(_, _)
SumOver(f, S) ==
    IF S = {} THEN 0
    ELSE LET x == CHOOSE y \in S : TRUE IN f[x] + SumOver(f, S \ {x})

TotalUsers ==
    SumOver([d \in Dirs |-> Cardinality(DOMAIN disk[d].user_data.doc)], Dirs)

(* the notes typed at add_note that a document holds *)
NotesIn(p) ==
    SumOver([k \in DOMAIN p |->
                Cardinality({i \in 1..Len(p[k].notes) : p[k].notes[i] \in Notes})],
            DOMAIN p)

TotalNotes ==
    SumOver([d \in Dirs |-> NotesIn(disk[d].protected_data.doc)], Dirs)

----------------------------------------------------------------------------
(* The lockout tracker *)

NoAttempts == [count |-> 0, freeze_time |-> None]

(* is_frozen with the count compared by > : a freeze is never recognised *)
is_frozen_off_by_one(la, username, t) ==
    /\ username \in DOMAIN la
    /\ la[username].count > max_attempts
    /\ la[username].freeze_time # None
    /\ t < la[username].freeze_time

(* is_frozen: TRUE while the freeze lasts *)
is_frozen(la, username, t) ==
    /\ username \in DOMAIN la
    /\ la[username].count >= max_attempts
    /\ la[username].freeze_time # None
    /\ t < la[username].freeze_time

(* is_frozen without the reset of an expired freeze *)
is_frozen_attempts_keep(la, username, t) == la

(* is_frozen restarting the freeze at every attempt made while it lasts *)
is_frozen_attempts_sliding(la, username, t) ==
    IF is_frozen(la, username, t)
    THEN [la EXCEPT ![username].freeze_time = t + freeze_duration]
    ELSE IF username \in DOMAIN la /\ la[username].count >= max_attempts
    THEN [la EXCEPT ![username] = NoAttempts]
    ELSE la

(* is_frozen resetting the count of an expired freeze but not its time *)
is_frozen_attempts_count(la, username, t) ==
    IF /\ username \in DOMAIN la
       /\ la[username].count >= max_attempts
       /\ ~is_frozen(la, username, t)
    THEN [la EXCEPT ![username].count = 0]
    ELSE la

(* is_frozen: the tracker it leaves behind (the reset of an expired freeze) *)
is_frozen_attempts(la, username, t) ==
    IF /\ username \in DOMAIN la
       /\ la[username].count >= max_attempts
       /\ ~is_frozen(la, username, t)
    THEN [la EXCEPT ![username] = NoAttempts]
    ELSE la

Op(op, user, arg, result) ==
    [op |-> op, user |-> user, arg |-> arg, result |-> result]

(* nothing is on the screen: the program waits at a menu or a prompt *)
NoOp == Op("", NoUser, "", "")

(* history: no freeze imposed in this directory is still running *)
NeverFrozen == [user |-> NoUser, until |-> None]

----------------------------------------------------------------------------

FreshFiles == {MissingFile}

Init ==
    /\ data_dir = DefaultDir
    /\ \E f \in [Dirs -> [user_data : FreshFiles, protected_data : FreshFiles]] :
          /\ disk = init_disk(f, DefaultDir)
          /\ users = load_users(f[DefaultDir].user_data)
          /\ protected_data = load_protected_data(f[DefaultDir].protected_data)
    /\ login_attempts = EmptyDict
    /\ now = 0
    /\ pc = "start"
    /\ cur = NoUser
    /\ last = NoOp
    /\ frozen_at = NeverFrozen

(* The clock advances while the program waits or sleeps *)
Tick ==
    /\ pc \notin {"exit", "crashed"}
    /\ last = NoOp
    /\ now + TickStep <= MaxTime
    /\ now' = now + TickStep
    /\ frozen_at' = IF frozen_at.until # None /\ now' >= frozen_at.until
                    THEN NeverFrozen ELSE frozen_at
    /\ UNCHANGED <<data_dir, disk, users, protected_data, login_attempts, pc, cur,
                   last>>

----------------------------------------------------------------------------
(* Registration *)

(* register_user that never takes the new user for the first one *)
first_user_never(u) == FALSE

(* register_user: first_user = len(self.users) == 0 *)
first_user(u) == Cardinality(DOMAIN u) = 0

(* register_user: the admin-only gate *)
permission_denied(u, admin_username) ==
    /\ ~first_user(u)
    /\ admin_username # NoUser
    /\ \/ admin_username \notin DOMAIN u
       \/ u[admin_username].role # "admin"

(* register_user taking the typed role for the first user too *)
role_of_typed(u, role_in) ==
    IF lower(role_in) \in {"admin", "user"} THEN lower(role_in) ELSE "user"

(* register_user: the role stored for the new user *)
role_of(u, role_in) ==
    IF first_user(u) THEN "admin"
    ELSE IF lower(role_in) \in {"admin", "user"} THEN lower(role_in) ELSE "user"

(* register_user without the test for a username that is taken *)
register_result_no_taken(u, admin_username, new_username, password, confirm_password) ==
    IF permission_denied(u, admin_username) THEN "PermissionDenied"
    ELSE IF password # confirm_password THEN "PasswordMismatch"
    ELSE "Ok"

(* register_user: which return the call takes *)
register_result(u, admin_username, new_username, password, confirm_password) ==
    IF permission_denied(u, admin_username) THEN "PermissionDenied"
    ELSE IF new_username \in DOMAIN u THEN "UsernameTaken"
    ELSE IF password # confirm_password THEN "PasswordMismatch"
    ELSE "Ok"

(* a registration that replaces the mapping by the new record alone *)
registered_alone(u, new_username, password, role) ==
    [k \in {new_username} |->
        [password |-> hash_password(password), role |-> role]]

(* register_user: self.users[new_username] = {...} *)
registered(u, new_username, password, role) ==
    Put(u, new_username, [password |-> hash_password(password), role |-> role])

(* a registration that leaves the note store as it is *)
note_entry_added_never(p, new_username) == p

(* register_user: self.protected_data[new_username] = {"notes": [], "files": []} *)
note_entry_added(p, new_username) ==
    Put(p, new_username, [notes |-> <<>>, files |-> <<>>])

register_user(admin_username, raw, password, confirm_password, role_in) ==
    LET new_username == strip(raw)
        res == register_result(users, admin_username, new_username, password,
                               confirm_password)
        new_users == registered(users, new_username, password,
                                role_of(users, role_in))
        new_data == note_entry_added(protected_data, new_username)
    IN /\ res = "Ok" => TotalUsers < MaxUsers
       /\ IF res = "Ok"
          THEN /\ users' = new_users
               /\ protected_data' = new_data
               /\ disk' = save_protected_data(save_users(disk, data_dir, new_users),
                                              data_dir, new_data)
          ELSE UNCHANGED <<users, protected_data, disk>>
       /\ last' = Op("register_user",
                     IF res = "PermissionDenied" THEN NoUser ELSE new_username,
                     IF password = confirm_password THEN "confirmed" ELSE "unconfirmed",
                     res)

(* run: the first-user registration before the main menu *)
RunStart ==
    /\ pc = "start"
    /\ last = NoOp
    /\ pc' = "main"
    /\ IF Cardinality(DOMAIN users) = 0
       THEN \E raw \in RawNames, password \in Passwords,
               confirm_password \in Passwords, role_in \in RoleInputs :
                register_user(NoUser, raw, password, confirm_password, role_in)
       ELSE UNCHANGED <<users, protected_data, disk, last>>
    /\ UNCHANGED <<data_dir, login_attempts, now, cur, frozen_at>>

----------------------------------------------------------------------------
(* Login *)

(* login creating the lockout entry before it looks the username up *)
LoginUsername_tracked_first ==
    /\ pc = "main"
    /\ last = NoOp
    /\ \E raw \in RawNames :
          LET username == strip(raw)
              la == IF username \in DOMAIN login_attempts THEN login_attempts
                    ELSE Put(login_attempts, username, NoAttempts)
          IN IF username \notin DOMAIN users
             THEN /\ last' = Op("login", username, "", "UnknownCredentials")
                  /\ login_attempts' = la
                  /\ UNCHANGED <<pc, cur>>
             ELSE IF is_frozen(la, username, now)
             THEN /\ login_attempts' = is_frozen_attempts(la, username, now)
                  /\ last' = Op("login", username, "", "Frozen")
                  /\ UNCHANGED <<pc, cur>>
             ELSE /\ login_attempts' = is_frozen_attempts(la, username, now)
                  /\ pc' = "login_pw"
                  /\ cur' = username
                  /\ last' = Op("login", username, "",
                                IF la[username].count >= max_attempts
                                THEN "Unfrozen" ELSE "PasswordPrompt")
    /\ UNCHANGED <<data_dir, disk, users, protected_data, now, frozen_at>>

(* login, from the username prompt to the first password prompt *)
LoginUsername ==
    /\ pc = "main"
    /\ last = NoOp
    /\ \E raw \in RawNames :
          LET username == strip(raw)
              la == IF username \in DOMAIN login_attempts THEN login_attempts
                    ELSE Put(login_attempts, username, NoAttempts)
          IN IF username \notin DOMAIN users
             THEN /\ last' = Op("login", username, "", "UnknownCredentials")
                  /\ UNCHANGED <<login_attempts, pc, cur>>
             ELSE IF is_frozen(la, username, now)
             THEN /\ login_attempts' = is_frozen_attempts(la, username, now)
                  /\ last' = Op("login", username, "", "Frozen")
                  /\ UNCHANGED <<pc, cur>>
             ELSE /\ login_attempts' = is_frozen_attempts(la, username, now)
                  /\ pc' = "login_pw"
                  /\ cur' = username
                  /\ last' = Op("login", username, "",
                                IF la[username].count >= max_attempts
                                THEN "Unfrozen" ELSE "PasswordPrompt")
    /\ UNCHANGED <<data_dir, disk, users, protected_data, now, frozen_at>>

(* login with the comparison of the digests inverted *)
password_matches_inverted(u, username, password) ==
    hash_password(password) # u[username].password

(* login: hashed_password == self.users[username]["password"] *)
password_matches(u, username, password) ==
    hash_password(password) = u[username].password

(* login freezing at the time of the attempt, without freeze_duration *)
failed_attempt_no_duration(la, username, t) ==
    LET counted == [la EXCEPT ![username].count = @ + 1]
        attempts_left == max_attempts - counted[username].count
    IN IF attempts_left <= 0
       THEN [counted EXCEPT ![username].freeze_time = t]
       ELSE counted

(* login freezing one attempt late: attempts_left < 0 *)
failed_attempt_late(la, username, t) ==
    LET counted == [la EXCEPT ![username].count = @ + 1]
        attempts_left == max_attempts - counted[username].count
    IN IF attempts_left < 0
       THEN [counted EXCEPT ![username].freeze_time = t + freeze_duration]
       ELSE counted

(* login that does not count the failed attempt *)
failed_attempt_uncounted(la, username, t) == la

(* login: the tracker after a password that does not match *)
failed_attempt(la, username, t) ==
    LET counted == [la EXCEPT ![username].count = @ + 1]
        attempts_left == max_attempts - counted[username].count
    IN IF attempts_left <= 0
       THEN [counted EXCEPT ![username].freeze_time = t + freeze_duration]
       ELSE counted

(* login, from one password prompt to the next prompt or to the return *)
LoginPassword ==
    /\ pc = "login_pw"
    /\ last = NoOp
    /\ \E password \in Passwords :
          LET username == cur
              la == failed_attempt(login_attempts, username, now)
          IN IF password_matches(users, username, password)
             THEN /\ login_attempts' = [login_attempts EXCEPT ![username].count = 0]
                  /\ pc' = "menu"
                  /\ last' = Op("login_password", username, password, "Ok")
                  /\ UNCHANGED <<cur, frozen_at>>
             ELSE IF max_attempts - la[username].count <= 0
             THEN /\ login_attempts' = la
                  /\ frozen_at' = [user |-> username,
                                   until |-> la[username].freeze_time]
                  /\ pc' = "main"
                  /\ cur' = NoUser
                  /\ last' = Op("login_password", username, password, "TooManyAttempts")
             ELSE IF is_frozen(la, username, now)
             THEN /\ login_attempts' = la
                  /\ pc' = "main"
                  /\ cur' = NoUser
                  /\ last' = Op("login_password", username, password, "Frozen")
                  /\ UNCHANGED frozen_at
             ELSE /\ login_attempts' = is_frozen_attempts(la, username, now)
                  /\ last' = Op("login_password", username, password, "InvalidPassword")
                  /\ UNCHANGED <<pc, cur, frozen_at>>
    /\ UNCHANGED <<data_dir, disk, users, protected_data, now>>

----------------------------------------------------------------------------
(* The main menu *)

(* run, choice 2: a new SecuritySystem on new_dir replaces the running one *)
ChangeDir ==
    /\ pc = "main"
    /\ last = NoOp
    /\ \E new_dir \in Dirs :
          /\ data_dir' = new_dir
          /\ disk' = init_disk(disk, new_dir)
          /\ users' = load_users(disk[new_dir].user_data)
          /\ protected_data' = load_protected_data(disk[new_dir].protected_data)
          /\ last' = Op("change_dir", NoUser, "", "Ok")
          /\ frozen_at' = IF new_dir = data_dir THEN frozen_at ELSE NeverFrozen
    /\ login_attempts' = EmptyDict
    /\ pc' = "start"
    /\ UNCHANGED <<now, cur>>

(* a reset that rewrites the whole record, as a registration would *)
reset_password_record(u, username, new_password) ==
    [u EXCEPT ![username] = [password |-> hash_password(new_password),
                             role |-> "user"]]

(* a reset that leaves the stored hash as it is *)
reset_password_kept(u, username, new_password) == u

(* self.users[username]["password"] = self.hash_password(new_password) *)
reset_password(u, username, new_password) ==
    [u EXCEPT ![username].password = hash_password(new_password)]

(* datetime.now().strftime("%Y%m%d"): the calendar day of second t *)
Day(t) == t \div (24 * 60 * 60)

(* hashlib.md5(reset_seed.encode()).hexdigest()[:6].upper() *)
reset_code(username, t) == [name |-> username, day |-> Day(t), upper |-> TRUE]

(* str.upper() on a typed security code *)
upper(code) == [code EXCEPT !.upper = TRUE]

TypedCodes ==
    [name : {"alice"}, day : {Day(now)}, upper : BOOLEAN]
        \cup [name : {"admin"}, day : {Day(now), Day(now) + 1}, upper : {TRUE}]

(* emergency_profile_reset: which return the call takes *)
emergency_result(u, username, t, attempt, new_password, confirm_password) ==
    IF username \notin DOMAIN u THEN "UnknownUser"
    ELSE IF upper(attempt) # reset_code(username, t) THEN "CodeMismatch"
    ELSE IF new_password # confirm_password THEN "PasswordMismatch"
    ELSE "Ok"

(* a reset that stores the new password before comparing it with its     *)
(* confirmation                                                            *)
emergency_commits_early(res) == res \in {"Ok", "PasswordMismatch"}

(* emergency_profile_reset: the returns before line 265 write nothing *)
emergency_commits(res) == res = "Ok"

(* run, choice 3: emergency_profile_reset *)
EmergencyReset ==
    /\ pc = "main"
    /\ last = NoOp
    /\ \E raw \in RawNames, attempt \in TypedCodes,
          new_password \in Passwords, confirm_password \in Passwords :
          LET username == strip(raw)
              res == emergency_result(users, username, now, attempt, new_password,
                                      confirm_password)
              new_users == reset_password(users, username, new_password)
          IN /\ IF emergency_commits(res)
                THEN /\ users' = new_users
                     /\ disk' = save_users(disk, data_dir, new_users)
                ELSE UNCHANGED <<users, disk>>
             /\ last' = Op("emergency_profile_reset", username,
                           IF res = "Ok" THEN new_password ELSE "", res)
    /\ UNCHANGED <<data_dir, protected_data, login_attempts, now, pc, cur, frozen_at>>

(* run, choice 4 *)
Exit ==
    /\ pc = "main"
    /\ last = NoOp
    /\ pc' = "exit"
    /\ UNCHANGED <<last, data_dir, disk, users, protected_data, login_attempts, now, cur,
                   frozen_at>>

----------------------------------------------------------------------------
(* The user menu of the logged-in user cur *)

(* user_menu, choice 1: view_notes *)
ViewNotes ==
    /\ pc = "menu"
    /\ last = NoOp
    /\ last' = Op("view_notes", cur, "",
                  IF cur \notin DOMAIN protected_data
                     \/ Len(protected_data[cur].notes) = 0
                  THEN "NoNotes" ELSE "Listed")
    /\ UNCHANGED <<data_dir, disk, users, protected_data, login_attempts, now, pc,
                   cur, frozen_at>>

(* user_menu, choice 2: add_note *)
AddNote ==
    /\ pc = "menu"
    /\ last = NoOp
    /\ TotalNotes < MaxNotes
    /\ \E note \in Notes :
          LET data == IF cur \in DOMAIN protected_data THEN protected_data
                      ELSE Put(protected_data, cur, [notes |-> <<>>, files |-> <<>>])
              new_data == [data EXCEPT ![cur].notes = Append(@, note)]
          IN /\ protected_data' = new_data
             /\ disk' = save_protected_data(disk, data_dir, new_data)
             /\ last' = Op("add_note", cur, "", "Ok")
    /\ UNCHANGED <<data_dir, users, login_attempts, now, pc, cur, frozen_at>>

(* user_menu, choice 3: self.change_password is not a method of the class *)
ChangePassword ==
    /\ pc = "menu"
    /\ last = NoOp
    /\ pc' = "crashed"
    /\ last' = Op("change_password", cur, "", "AttributeError")
    /\ UNCHANGED <<data_dir, disk, users, protected_data, login_attempts, now, cur,
                   frozen_at>>

(* user_menu, choice 4 as self.register_user() for whoever is logged in *)
MenuRegister_unguarded ==
    /\ pc = "menu"
    /\ last = NoOp
    /\ \E raw \in RawNames, password \in Passwords,
          confirm_password \in Passwords, role_in \in RoleInputs :
           register_user(NoUser, raw, password, confirm_password, role_in)
    /\ UNCHANGED <<data_dir, login_attempts, now, pc, cur, frozen_at>>

(* user_menu, choice 4: register_user(username) behind the menu's role test *)
MenuRegister ==
    /\ pc = "menu"
    /\ last = NoOp
    /\ IF users[cur].role = "admin"
       THEN \E raw \in RawNames, password \in Passwords,
               confirm_password \in Passwords, role_in \in RoleInputs :
                register_user(cur, raw, password, confirm_password, role_in)
       ELSE /\ last' = Op("user_menu", cur, "4", "InvalidChoice")
            /\ UNCHANGED <<users, protected_data, disk>>
    /\ UNCHANGED <<data_dir, login_attempts, now, pc, cur, frozen_at>>

(* admin_reset_password: which return the call takes *)
admin_reset_result(u, target_username, new_password, confirm_password) ==
    IF target_username \notin DOMAIN u THEN "UnknownUser"
    ELSE IF new_password # confirm_password THEN "PasswordMismatch"
    ELSE "Ok"

(* user_menu, choice 5: admin_reset_password behind the menu's role test *)
MenuAdminReset ==
    /\ pc = "menu"
    /\ last = NoOp
    /\ IF users[cur].role = "admin"
       THEN \E raw \in RawNames, new_password \in Passwords,
               confirm_password \in Passwords :
                LET target_username == strip(raw)
                    res == admin_reset_result(users, target_username, new_password,
                                              confirm_password)
                    new_users == reset_password(users, target_username,
                                                new_password)
                IN /\ IF res = "Ok"
                      THEN /\ users' = new_users
                           /\ disk' = save_users(disk, data_dir, new_users)
                      ELSE UNCHANGED <<users, disk>>
                   /\ last' = Op("admin_reset_password", target_username, "", res)
       ELSE /\ last' = Op("user_menu", cur, "5", "InvalidChoice")
            /\ UNCHANGED <<users, disk>>
    /\ UNCHANGED <<data_dir, protected_data, login_attempts, now, pc, cur, frozen_at>>

(* user_menu, choice 0 *)
Logout ==
    /\ pc = "menu"
    /\ last = NoOp
    /\ pc' = "main"
    /\ cur' = NoUser
    /\ last' = Op("logout", cur, "", "Ok")
    /\ UNCHANGED <<data_dir, disk, users, protected_data, login_attempts, now,
                   frozen_at>>

----------------------------------------------------------------------------

(* the outcome leaves the screen: the time.sleep or "Press Enter to         *)
(* continue..." after it is over and the next menu or prompt is shown      *)
Continue ==
    /\ last # NoOp
    /\ last' = NoOp
    /\ UNCHANGED <<data_dir, disk, users, protected_data, login_attempts, now, pc,
                   cur, frozen_at>>

Next ==
    \/ Tick
    \/ Continue
    \/ RunStart
    \/ LoginUsername
    \/ LoginPassword
    \/ ChangeDir
    \/ EmergencyReset
    \/ Exit
    \/ ViewNotes
    \/ AddNote
    \/ ChangePassword
    \/ MenuRegister
    \/ MenuAdminReset
    \/ Logout

Spec == Init /\ [][Next]_vars

TypeOK ==
    /\ data_dir \in Dirs
    /\ now \in 0..MaxTime
    /\ pc \in {"start", "main", "login_pw", "menu", "exit", "crashed"}
    /\ DOMAIN users \subseteq Names
    /\ DOMAIN login_attempts \subseteq Names
    /\ cur \in Names \cup {NoUser}

----------------------------------------------------------------------------
(* The lockout states of section 4.2, read off the tracker *)

Tracked(u) == u \in DOMAIN login_attempts

Open(u) ==
    Tracked(u) => /\ login_attempts[u].count = 0
                  /\ login_attempts[u].freeze_time = None

FreezeSet(u) ==
    /\ Tracked(u)
    /\ login_attempts[u].count >= max_attempts
    /\ login_attempts[u].freeze_time # None

Frozen(u) == FreezeSet(u) /\ now < login_attempts[u].freeze_time

Expired(u) == FreezeSet(u) /\ now >= login_attempts[u].freeze_time

Correct(u, password) == users[u].password = hash_password(password)

LoginOf(u) == last'.op = "login" /\ last'.user = u

PasswordStep == pc = "login_pw" /\ last'.op = "login_password"

ResultIs(op, result) == last.op = op /\ last.result = result

----------------------------------------------------------------------------
(* C1: the fifth consecutive wrong password freezes the account, and a     *)
(* login for a username whose freeze still lasts is rejected as Frozen     *)
(* before any password is asked for, so that no frozen username is ever at *)
(* the password prompt or logged in.                                       *)
C1_FrozenLoginRejected ==
    /\ [](pc \in {"login_pw", "menu"} => ~Frozen(cur))
    /\ [][/\ (PasswordStep /\ ~Correct(cur, last'.arg)
                 /\ login_attempts[cur].count = max_attempts - 1)
              => /\ login_attempts'[cur].count = max_attempts
                 /\ login_attempts'[cur].freeze_time # None
                 /\ now' < login_attempts'[cur].freeze_time
                 /\ pc' = "main"
          /\ \A u \in Names :
                (LoginOf(u) /\ Frozen(u))
                   => /\ last'.result = "Frozen"
                      /\ pc' = "main"
                      /\ cur' = NoUser]_vars

C1_Witness ==
    /\ ResultIs("login", "Frozen")
    /\ Frozen(last.user)
    /\ Correct(last.user, "pw1")

(* C2: a login for a registered username in lockout state Open reaches the *)
(* password prompt, and the correct password there logs that username in   *)
(* and leaves its count at 0.                                              *)
C2_CorrectPasswordFromOpen ==
    [][/\ \A u \in DOMAIN users :
             (LoginOf(u) /\ Open(u)) => pc' = "login_pw" /\ cur' = u
       /\ (PasswordStep /\ Open(cur) /\ Correct(cur, last'.arg))
             => /\ last'.result = "Ok"
                /\ last'.user = cur
                /\ pc' = "menu"
                /\ cur' = cur
                /\ login_attempts'[cur].count = 0]_vars

C2_Witness ==
    /\ ResultIs("login_password", "Ok")
    /\ pc = "menu"
    /\ cur = last.user
    /\ Correct(cur, last.arg)
    /\ login_attempts[cur].count = 0

(* C3: a login for a username whose freeze has run out (now >= freeze-until) *)
(* resets its tracker to count 0 with no freeze time and goes on to the      *)
(* password prompt; from there the correct password logs in with count 0     *)
(* and a wrong password leaves count 1 with no freeze.                       *)
C3_FreezeExpiry ==
    [][/\ \A u \in Names :
             (LoginOf(u) /\ Expired(u))
                => /\ login_attempts'[u] = NoAttempts
                   /\ pc' = "login_pw"
                   /\ cur' = u
       /\ (PasswordStep /\ login_attempts[cur] = NoAttempts)
             => IF Correct(cur, last'.arg)
                THEN /\ pc' = "menu"
                     /\ login_attempts'[cur].count = 0
                ELSE /\ pc' = "login_pw"
                     /\ login_attempts'[cur] = [count |-> 1, freeze_time |-> None]]_vars

C3_Witness ==
    /\ ResultIs("login", "Unfrozen")
    /\ pc = "login_pw"
    /\ cur = last.user
    /\ login_attempts[cur] = NoAttempts

(* C4: no login succeeds for a username, in the directory where it was     *)
(* frozen, before the freeze-until of that freeze.                         *)
C4_NoLoginWhileFrozen ==
    ~(/\ ResultIs("login_password", "Ok")
      /\ frozen_at.user = last.user
      /\ frozen_at.until # None
      /\ now < frozen_at.until)

(* C5, as claimed: whenever count >= max_attempts, freeze-until is set and *)
(* lies strictly in the future of the clock.                               *)
C5_FreezeInFuture ==
    \A u \in DOMAIN login_attempts :
        login_attempts[u].count >= max_attempts
           => /\ login_attempts[u].freeze_time # None
              /\ login_attempts[u].freeze_time > now

(* C5, amended: whenever count >= max_attempts, freeze-until is set; it    *)
(* lies strictly in the future in the state in which the count reaches     *)
(* max_attempts, and is never more than freeze_duration ahead of the clock. *)
C5_FreezeSet ==
    /\ [](\A u \in DOMAIN login_attempts :
             login_attempts[u].count >= max_attempts
                => /\ login_attempts[u].freeze_time # None
                   /\ login_attempts[u].freeze_time <= now + freeze_duration)
    /\ [][\A u \in DOMAIN login_attempts' :
             (/\ login_attempts'[u].count >= max_attempts
              /\ ~(Tracked(u) /\ login_attempts[u].count >= max_attempts))
                => login_attempts'[u].freeze_time > now']_vars

C5_Witness ==
    \E u \in DOMAIN login_attempts :
        /\ login_attempts[u].count >= max_attempts
        /\ login_attempts[u].freeze_time # None
        /\ login_attempts[u].freeze_time <= now

(* C6: a login rejected because the username is Frozen leaves the count    *)
(* and the freeze-until of that username, and of every other, as they were. *)
C6_FrozenRejectKeepsFreeze ==
    [][\A u \in Names :
          (LoginOf(u) /\ (Frozen(u) \/ last'.result = "Frozen"))
             => /\ Tracked(u)
                /\ login_attempts' = login_attempts]_vars

C6_Witness ==
    /\ ResultIs("login", "Frozen")
    /\ Frozen(last.user)
    /\ now > 0
    /\ login_attempts[last.user].freeze_time < now + freeze_duration

(* C7: a wrong password at the password prompt adds exactly 1 to the count; *)
(* when the new count is max_attempts the username is Frozen until          *)
(* now + freeze_duration and the login returns, otherwise no freeze time is *)
(* set, the count stays below max_attempts and the prompt is shown again.   *)
C7_WrongPasswordCounts ==
    [][(PasswordStep /\ ~Correct(cur, last'.arg))
          => /\ login_attempts[cur].count < max_attempts
             /\ login_attempts'[cur].count = login_attempts[cur].count + 1
             /\ \A u \in DOMAIN login_attempts \ {cur} :
                   login_attempts'[u] = login_attempts[u]
             /\ IF login_attempts'[cur].count = max_attempts
                THEN /\ login_attempts'[cur].freeze_time = now + freeze_duration
                     /\ pc' = "main"
                ELSE /\ login_attempts'[cur].freeze_time = None
                     /\ login_attempts'[cur].count \in 1..(max_attempts - 1)
                     /\ pc' = "login_pw"]_vars

C7_Witness ==
    /\ ResultIs("login_password", "TooManyAttempts")
    /\ login_attempts[last.user] =
          [count |-> max_attempts, freeze_time |-> now + freeze_duration]
    /\ now > 0

(* C8: a registration that succeeds on an empty credential store stores    *)
(* role admin for the new user, whichever role is typed.                   *)
C8_FirstUserIsAdmin ==
    [][(last'.op = "register_user" /\ last'.result = "Ok" /\ DOMAIN users = {})
          => /\ DOMAIN users' = {last'.user}
             /\ users'[last'.user].role = "admin"]_vars

C8_Witness ==
    /\ ResultIs("register_user", "Ok")
    /\ DOMAIN users = {last.user}
    /\ users[last.user].role = "admin"
    /\ data_dir # DefaultDir

(* C9: on a non-empty credential store a registration is reached only from *)
(* the user menu; it succeeds only for a logged-in registered user of role *)
(* admin, and for any other user the choice is rejected and the credential *)
(* mapping, the note store and the files are unchanged.                    *)
RegistrationChosen ==
    \/ last'.op = "register_user"
    \/ last'.op = "user_menu" /\ last'.arg = "4"

CallerIsAdmin ==
    /\ pc = "menu"
    /\ cur \in DOMAIN users
    /\ users[cur].role = "admin"

C9_OnlyAdminsRegister ==
    [][(RegistrationChosen /\ DOMAIN users # {})
          => /\ pc = "menu"
             /\ last'.result = "Ok" => CallerIsAdmin
             /\ ~CallerIsAdmin
                   => /\ last'.result \in {"PermissionDenied", "InvalidChoice"}
                      /\ UNCHANGED <<users, protected_data, disk>>]_vars

C9_Witness ==
    /\ ResultIs("user_menu", "InvalidChoice")
    /\ last.arg = "4"
    /\ pc = "menu"
    /\ users[cur].role = "user"

(* C10: a registration with a username that is already registered, or with *)
(* a password that differs from its confirmation, fails and leaves the     *)
(* credential mapping, the note store and both files unchanged.            *)
C10_FailedRegistrationChangesNothing ==
    [][(/\ last'.op = "register_user"
        /\ \/ last'.user \in DOMAIN users
           \/ last'.arg = "unconfirmed")
          => /\ last'.result \in {"UsernameTaken", "PasswordMismatch"}
             /\ UNCHANGED <<users, protected_data, disk>>]_vars

C10_Witness ==
    /\ ResultIs("register_user", "UsernameTaken")
    /\ last.user \in DOMAIN users
    /\ last.arg = "confirmed"

-----------------------------------------------------------------------------
(* What login shows the caller *)

(* login: the text printed for a rejection and whether "Password: " was    *)
(* asked before it; attempts_left is the number printed inside the text    *)
login_output(result, attempts_left) ==
    CASE result = "UnknownCredentials"
           -> [password_prompt |-> FALSE,
               text |-> "Invalid username or password",
               attempts_left |-> None]
      [] result = "InvalidPassword"
           -> [password_prompt |-> TRUE,
               text |-> "Invalid password. {attempts_left} attempts remaining.",
               attempts_left |-> attempts_left]
      [] result = "TooManyAttempts"
           -> [password_prompt |-> TRUE,
               text |-> "Too many failed attempts! Account frozen.",
               attempts_left |-> None]
      [] OTHER
           -> [password_prompt |-> FALSE, text |-> result,
               attempts_left |-> None]

(* the rejection on screen, as the caller observes it *)
Observed ==
    login_output(last.result,
                 IF last.user \in DOMAIN login_attempts
                 THEN max_attempts - login_attempts[last.user].count
                 ELSE None)

(* C11: a login rejected for a wrong password of a known username shows    *)
(* the caller exactly what a login with an unknown username shows, so the  *)
(* outcome does not tell whether the username exists.                      *)
C11_UniformRejection ==
    (ResultIs("login_password", "InvalidPassword") /\ last.user \in DOMAIN users)
       => Observed = login_output("UnknownCredentials", None)

-----------------------------------------------------------------------------
EmergencyOk == last'.op = "emergency_profile_reset" /\ last'.result = "Ok"

(* C12: a successful emergency reset for a username replaces the password  *)
(* hash of that username with the hash of the new password and nothing     *)
(* else: its role, every other record, every note collection, the          *)
(* protected-data files and the lockout state of every username stay.      *)
C12_EmergencyResetFrame ==
    [][EmergencyOk
          => /\ last'.user \in DOMAIN users
             /\ DOMAIN users' = DOMAIN users
             /\ users'[last'.user].password = hash_password(last'.arg)
             /\ \A u \in DOMAIN users :
                   /\ users'[u].role = users[u].role
                   /\ u # last'.user => users'[u] = users[u]
             /\ UNCHANGED <<protected_data, login_attempts, data_dir>>
             /\ disk'[data_dir].user_data = SavedFile(users')
             /\ disk'[data_dir].protected_data = disk[data_dir].protected_data
             /\ \A d \in Dirs \ {data_dir} : disk'[d] = disk[d]]_vars

(* a frozen administrator, with a second user present, has just been reset *)
C12_Witness ==
    /\ ResultIs("emergency_profile_reset", "Ok")
    /\ Frozen(last.user)
    /\ users[last.user].role = "admin"
    /\ Cardinality(DOMAIN users) = 2

-----------------------------------------------------------------------------
EmergencyFailed ==
    /\ last'.op = "emergency_profile_reset"
    /\ last'.result \in {"UnknownUser", "CodeMismatch", "PasswordMismatch"}

(* C13: an emergency reset that ends in UnknownUser, CodeMismatch or       *)
(* PasswordMismatch leaves the credential mapping, the note store and the  *)
(* persisted documents of every directory as they were; a reset for a      *)
(* username without a record always ends in UnknownUser.                   *)
C13_FailedEmergencyResetChangesNothing ==
    [][/\ EmergencyFailed => UNCHANGED <<users, protected_data, disk>>
       /\ (last'.op = "emergency_profile_reset" /\ last'.user \notin DOMAIN users)
             => last'.result = "UnknownUser"]_vars

(* a reset with the right code and an unconfirmed password, for a user     *)
(* that is registered, is on screen                                        *)
C13_Witness ==
    /\ ResultIs("emergency_profile_reset", "PasswordMismatch")
    /\ last.user \in DOMAIN users
    /\ disk[data_dir].user_data = SavedFile(users)

-----------------------------------------------------------------------------
(* every record of mapping u is in mapping v with the same role *)
KeepsRecords(u, v) ==
    \A name \in DOMAIN u : name \in DOMAIN v /\ v[name].role = u[name].role

(* C14: a registered username keeps its record and its role: no login,     *)
(* registration, note, admin reset or emergency reset removes a record or  *)
(* changes a role of the running credential mapping, and no step at all    *)
(* does so in the credential document of any directory.                    *)
C14_RolesAndRecordsKept ==
    [][/\ \A d \in Dirs : KeepsRecords(load_users(disk[d].user_data),
                                        load_users(disk'[d].user_data))
       /\ last'.op # "change_dir" => KeepsRecords(users, users')]_vars

(* an administrator has just reset the password of an ordinary user *)
C14_Witness ==
    /\ ResultIs("admin_reset_password", "Ok")
    /\ last.user \in DOMAIN users
    /\ users[last.user].role = "user"
    /\ users[cur].role = "admin"

-----------------------------------------------------------------------------
-----------------------------------------------------------------------------
IsPrefix(s, t) == Len(s) <= Len(t) /\ SubSeq(t, 1, Len(s)) = s

(* every entry of note store p is in q with its notes extended at the end  *)
(* at most and its files as they were                                      *)
AppendOnly(p, q) ==
    \A name \in DOMAIN p :
       /\ name \in DOMAIN q
       /\ IsPrefix(p[name].notes, q[name].notes)
       /\ q[name].files = p[name].files

(* C16: note collections are append-only and files are never changed: for  *)
(* every username with an entry in the protected-data document of a        *)
(* directory, each step leaves its earlier notes as a prefix of its notes  *)
(* and its files list as it was.                                           *)
C16_NotesAppendOnly ==
    [][\A d \in Dirs : AppendOnly(disk[d].protected_data.doc,
                                  disk'[d].protected_data.doc)]_vars

-----------------------------------------------------------------------------
(* C17: when a registration succeeds, the two documents of the data        *)
(* directory are the credential mapping and the note store in memory; the  *)
(* credential document holds the new record and the protected-data         *)
(* document the new, empty note collection.                                *)
C17_RegistrationPersisted ==
    [][(last'.op = "register_user" /\ last'.result = "Ok")
          => /\ disk'[data_dir'].user_data = SavedFile(users')
             /\ disk'[data_dir'].protected_data = SavedFile(protected_data')
             /\ last'.user \notin DOMAIN users
             /\ last'.user \in DOMAIN disk'[data_dir'].user_data.doc
             /\ last'.user \in DOMAIN disk'[data_dir'].protected_data.doc
             /\ disk'[data_dir'].protected_data.doc[last'.user]
                   = [notes |-> <<>>, files |-> <<>>]]_vars

(* the second user of the alternative directory has just been registered   *)
C17_Witness ==
    /\ ResultIs("register_user", "Ok")
    /\ data_dir # DefaultDir
    /\ Cardinality(DOMAIN users) = 2
    /\ disk[data_dir].user_data.doc = users

-----------------------------------------------------------------------------
(* the passwords the running login may still ask for *)
PasswordsLeft == max_attempts - login_attempts[cur].count

(* C18: one login for a known username obtains at most max_attempts        *)
(* passwords: at the password prompt between 1 and max_attempts passwords  *)
(* are left, every password that keeps the login at the prompt takes one   *)
(* of them, nothing gives one back, and a password that ends the login     *)
(* ends it with success, with the transition to Frozen or with a Frozen    *)
(* rejection.                                                              *)
C18_LoginBounded ==
    /\ [](pc = "login_pw"
            => /\ cur \in DOMAIN users
               /\ cur \in DOMAIN login_attempts
               /\ PasswordsLeft \in 1..max_attempts)
    /\ [][pc = "login_pw"
            => /\ pc' = "login_pw"
                     => /\ cur' = cur
                        /\ PasswordsLeft' <= PasswordsLeft
                        /\ last'.op = "login_password"
                              => PasswordsLeft' = PasswordsLeft - 1
               /\ pc' # "login_pw"
                     => /\ last'.op = "login_password"
                        /\ last'.result \in {"Ok", "TooManyAttempts", "Frozen"}]_vars

(* the login on screen has one password left *)
C18_Witness ==
    /\ pc = "login_pw"
    /\ ResultIs("login_password", "InvalidPassword")
    /\ PasswordsLeft = 1

-----------------------------------------------------------------------------
(* C19: choosing Change Password in the user menu, with the right current  *)
(* password and a confirmed new one, stores the hash of the new password   *)
(* for the logged-in user, keeps every role and the notes, and returns to  *)
(* the menu with the same user logged in.                                  *)
C19_ChangePassword ==
    [][last'.op = "change_password"
          => /\ pc' = "menu"
             /\ cur' = cur
             /\ \E new_password \in Passwords :
                   users' = reset_password(users, cur, new_password)
             /\ protected_data' = protected_data]_vars

-----------------------------------------------------------------------------
(* login: how a login for username ends at time t when password is the     *)
(* first password typed                                                    *)
login_returns(u, la, username, password, t) ==
    IF username \notin DOMAIN u THEN "UnknownCredentials"
    ELSE LET tracked == IF username \in DOMAIN la THEN la
                        ELSE Put(la, username, NoAttempts)
         IN IF is_frozen(tracked, username, t) THEN "Frozen"
            ELSE IF password_matches(u, username, password) THEN "Ok"
            ELSE IF max_attempts - failed_attempt(
                        is_frozen_attempts(tracked, username, t),
                        username, t)[username].count <= 0
            THEN "TooManyAttempts"
            ELSE "InvalidPassword"

(* the login steps end as login_returns says *)
LoginStepsReturn ==
    [][/\ (pc = "main" /\ last'.op = "login")
             => \A password \in Passwords :
                   LET r == login_returns(users, login_attempts, last'.user,
                                          password, now)
                   IN IF last'.result \in {"UnknownCredentials", "Frozen"}
                      THEN r = last'.result
                      ELSE r \in {"Ok", "InvalidPassword", "TooManyAttempts"}
       /\ PasswordStep
             => last'.result = login_returns(users, login_attempts, cur,
                                             last'.arg, now)]_vars

(* the emergency reset on screen has succeeded *)
ResetDone == ResultIs("emergency_profile_reset", "Ok")

(* how a login for the username just reset ends, with the new password *)
LoginAfterReset ==
    login_returns(users, login_attempts, last.user, last.arg, now)

(* C20, as stated: once an emergency reset for a username has succeeded    *)
(* with a new password, a login for that username with that password       *)
(* succeeds, whatever the lockout state of the username.                   *)
C20_LoginAfterReset == ResetDone => LoginAfterReset = "Ok"

(* C20, amended: once an emergency reset for a username has succeeded with *)
(* a new password, a login for that username with that password succeeds   *)
(* unless the username is frozen; a freeze that was in force at the reset  *)
(* stays, and the login is rejected as Frozen until it expires.            *)
C20_LoginAfterResetUnlessFrozen ==
    /\ [](ResetDone
            => /\ users[last.user].password = hash_password(last.arg)
               /\ LoginAfterReset = IF Frozen(last.user) THEN "Frozen" ELSE "Ok")
    /\ LoginStepsReturn

(* a reset has succeeded for a username whose freeze has expired: the     *)
(* login with the new password succeeds                                    *)
C20_Witness ==
    /\ ResetDone
    /\ Expired(last.user)
    /\ LoginAfterReset = "Ok"

-----------------------------------------------------------------------------
(* C21: for every username with lockout state, the count lies between 0    *)
(* and max_attempts and a freeze time is recorded exactly when the count   *)
(* is max_attempts: an open or counting username carries no freeze time    *)
(* and the count never passes max_attempts.                                *)
C21_LockoutShape ==
    \A u \in DOMAIN login_attempts :
       /\ login_attempts[u].count \in 0..max_attempts
       /\ (login_attempts[u].freeze_time # None)
             <=> (login_attempts[u].count = max_attempts)

(* one username is frozen while the login of another has used up some of   *)
(* its attempts                                                            *)
C21_Witness ==
    /\ \E u \in DOMAIN login_attempts :
          /\ login_attempts[u].count = max_attempts
          /\ login_attempts[u].freeze_time # None
    /\ \E v \in DOMAIN login_attempts :
          /\ login_attempts[v].count \in 1..(max_attempts - 1)
          /\ login_attempts[v].freeze_time = None
          /\ pc = "login_pw"
          /\ cur = v

-----------------------------------------------------------------------------
(* C22: a login for a username without a record is rejected before any     *)
(* password is asked for and leaves the lockout state of every username as *)
(* it was, so that only registered usernames ever have lockout state.      *)
C22_OnlyRegisteredTracked ==
    /\ [](DOMAIN login_attempts \subseteq DOMAIN users)
    /\ [][(last'.op = "login" /\ last'.user \notin DOMAIN users)
            => /\ last'.result = "UnknownCredentials"
               /\ pc = "main"
               /\ pc' = "main"
               /\ cur' = cur
               /\ login_attempts' = login_attempts]_vars

(* a login with an unregistered username has been rejected while a         *)
(* registered one has lockout state                                        *)
C22_Witness ==
    /\ ResultIs("login", "UnknownCredentials")
    /\ last.user \notin DOMAIN users
    /\ last.user \notin DOMAIN login_attempts
    /\ login_attempts # EmptyDict

-----------------------------------------------------------------------------
Admins(u) == {name \in DOMAIN u : u[name].role = "admin"}

(* C23: starting from directories without users, whenever the credential   *)
(* mapping is not empty at least one of its users is an administrator; the *)
(* same holds for the credential document of every directory.              *)
C23_SomeAdmin ==
    /\ users # EmptyDict => Admins(users) # {}
    /\ \A d \in Dirs :
          LET doc == load_users(disk[d].user_data)
          IN doc # EmptyDict => Admins(doc) # {}

(* the only administrator has registered an ordinary user, who is now      *)
(* logged in                                                               *)
C23_Witness ==
    /\ Cardinality(DOMAIN users) = 2
    /\ Cardinality(Admins(users)) = 1
    /\ pc = "menu"
    /\ cur \in DOMAIN users
    /\ users[cur].role = "user"

====
